---- MODULE Spec2Model ----
(***************************************************************************)
(* Model of torchaudio/functional.py: the tensor utilities (pad_trim), the *)
(* spectral pipeline (spectrogram, create_fb_matrix, spectrogram_to_DB,    *)
(* create_dct) and the mu-law codec (mu_law_encoding, mu_law_expanding).   *)
(*                                                                         *)
(* Every function of the module is pure, so the state is the last call:    *)
(* which function was called (op), with which arguments (args), what it    *)
(* returned (ret) or which exception it raised (err), the library calls it *)
(* made on the way (calls) and the signal it handed to torch.stft          *)
(* (stft_in); prev keeps the arguments of the call before it.  Floats are  *)
(* fixed-point integers; each operator states its scale.                   *)
(***************************************************************************)
EXTENDS Integers, Sequences, FiniteSets, TLC

VARIABLES op, args, prev, ret, err, calls, stft_in

vars == <<op, args, prev, ret, err, calls, stft_in>>

(***************************************************************************)
(* Bounds of the model.                                                    *)
(***************************************************************************)
\* largest size of a small tensor along one axis (pad_trim)
MaxDim == 2
\* largest max_len handed to pad_trim
MaxLen == 3

(***************************************************************************)
(* Values.  A tensor is [shape, data] with data in row-major order; what a *)
(* call returns is [kind |-> "none"] or [kind |-> "tensor", t |-> tensor]. *)
(***************************************************************************)
NoRet == [kind |-> "none"]

TensorRet(t) == [kind |-> "tensor", t |-> t]

NoTensor == [shape |-> <<>>, data |-> <<>>]

Ok(t) == [err |-> "none", ret |-> TensorRet(t)]

Raise(e) == [err |-> e, ret |-> NoRet]

Max(a, b) == IF a >= b THEN a ELSE b

Abs(a) == IF a >= 0 THEN a ELSE -a

Sign(a) == IF a > 0 THEN 1 ELSE IF a < 0 THEN -1 ELSE 0

\* tensor.dim()
Dim(t) == Len(t.shape)

\* tensor.size(d)
Size(t, d) == t.shape[d + 1]

\* element (i, j) of a 2-D tensor, 0-based
At(t, i, j) == t.data[i * t.shape[2] + j + 1]

\* the 2-D tensor of shape (d0, d1) whose element (i, j) is f[i][j]
Tensor2(d0, d1, f) ==
    [shape |-> <<d0, d1>>,
     data  |-> [n \in 1..(d0 * d1) |-> f[(n - 1) \div d1][(n - 1) % d1]] \o <<>>]

(***************************************************************************)
(* torch.nn.functional.pad(t, padding, "constant", value) on a 2-D tensor: *)
(* padding = (left, right) of the last axis, then (left, right) of axis 0. *)
(***************************************************************************)
ConstantPad2D(t, padding, value) ==
    LET d0 == Size(t, 0)
        d1 == Size(t, 1)
        l1 == padding[1]
        r1 == padding[2]
        l0 == padding[3]
        r0 == padding[4]
        n0 == d0 + l0 + r0
        n1 == d1 + l1 + r1
    IN  Tensor2(n0, n1,
            [i \in 0..(n0 - 1) |-> [j \in 0..(n1 - 1) |->
                IF i >= l0 /\ i < l0 + d0 /\ j >= l1 /\ j < l1 + d1
                THEN At(t, i - l0, j - l1)
                ELSE value]])

\* tensor.narrow(dim, 0, length) on a 2-D tensor
Narrow2D(t, dim, length) ==
    LET n0 == IF dim = 0 THEN length ELSE Size(t, 0)
        n1 == IF dim = 1 THEN length ELSE Size(t, 1)
    IN  Tensor2(n0, n1, [i \in 0..(n0 - 1) |-> [j \in 0..(n1 - 1) |-> At(t, i, j)]])

(***************************************************************************)
(* pad_trim(tensor, ch_dim, max_len, len_dim, fill_value)                  *)
(***************************************************************************)
\* the channel-count limit of the assertion
MaxChannels == 128

\* the padding list with the axis test inverted: pads the other axis
PadTrimPaddingWrongAxis(tensor, max_len, len_dim) ==
    [n \in 1..4 |->
        LET i == n - 1
        IN  IF (i % 2 = 1) /\ (i \div 2 = len_dim)
            THEN max_len - Size(tensor, len_dim)
            ELSE 0]

\* the padding list: entry i (0-based) pads the end of axis 1 - i \div 2
PadTrimPadding(tensor, max_len, len_dim) ==
    [n \in 1..4 |->
        LET i == n - 1
        IN  IF (i % 2 = 1) /\ (i \div 2 # len_dim)
            THEN max_len - Size(tensor, len_dim)
            ELSE 0]

pad_trim(tensor, ch_dim, max_len, len_dim, fill_value) ==
    IF ~(Size(tensor, ch_dim) < MaxChannels)
    THEN Raise("AssertionError")
    ELSE IF max_len > Size(tensor, len_dim)
    THEN Ok(ConstantPad2D(tensor, PadTrimPadding(tensor, max_len, len_dim), fill_value))
    ELSE IF max_len < Size(tensor, len_dim)
    THEN Ok(Narrow2D(tensor, len_dim, max_len))
    ELSE Ok(tensor)

\* the sample values of the small tensors
PadTrimVals == {1, 2}

\* every 2-D tensor of shape (d0, d1) over vals
AllTensors2(d0, d1, vals) ==
    {[shape |-> <<d0, d1>>, data |-> d] : d \in [1..(d0 * d1) -> vals]}

\* small tensors, and tensors with 127 or 128 entries along one axis
PadTrimTensors ==
    (UNION {AllTensors2(d0, d1, PadTrimVals) : d0 \in 1..MaxDim, d1 \in 1..MaxDim})
    \cup {Tensor2(d0, d1, [i \in 0..(d0 - 1) |-> [j \in 0..(d1 - 1) |-> 1]]) :
            d0 \in {MaxChannels - 1, MaxChannels}, d1 \in {1}}
    \cup {Tensor2(d0, d1, [i \in 0..(d0 - 1) |-> [j \in 0..(d1 - 1) |-> 1]]) :
            d0 \in {1}, d1 \in {MaxChannels - 1, MaxChannels}}

PadTrimFills == {0, 7}

Init ==
    /\ op = "none"
    /\ args = [none |-> TRUE]
    /\ prev = [none |-> TRUE]
    /\ ret = NoRet
    /\ err = "none"
    /\ calls = <<>>
    /\ stft_in = NoTensor

CallPadTrim ==
    /\ op = "none"
    /\ \E tensor \in PadTrimTensors, ch_dim \in {0, 1}, len_dim \in {0, 1},
       max_len \in 0..MaxLen, fill_value \in PadTrimFills :
        \E r \in {pad_trim(tensor, ch_dim, max_len, len_dim, fill_value)} :
            /\ op' = "pad_trim"
            /\ args' = [tensor |-> tensor, ch_dim |-> ch_dim, max_len |-> max_len,
                        len_dim |-> len_dim, fill_value |-> fill_value]
            /\ ret' = r.ret
            /\ err' = r.err
            /\ prev' = args
            /\ UNCHANGED <<calls, stft_in>>

NextPadTrim == CallPadTrim

SpecPadTrim == Init /\ [][NextPadTrim]_vars

(***************************************************************************)
(* C10: pad_trim on a 2-D tensor, ch_dim the other axis than len_dim: with *)
(* 128 or more channels it fails and produces no result; otherwise the     *)
(* result has size max_len along len_dim and the input's size along ch_dim,*)
(* its first min(old_len, max_len) entries along len_dim are the input's,  *)
(* every entry beyond old_len is fill_value, and with max_len equal to the *)
(* current length the tensor is returned unchanged.                        *)
(***************************************************************************)
\* entry at position l along len_dim and c along ch_dim
AtLC(t, len_dim, l, c) == IF len_dim = 0 THEN At(t, l, c) ELSE At(t, c, l)

PadTrimContract ==
    (op = "pad_trim" /\ args.ch_dim # args.len_dim) =>
        LET t == args.tensor
            old_len == Size(t, args.len_dim)
            ch == Size(t, args.ch_dim)
        IN  IF ch >= 128
            THEN err # "none" /\ ret = NoRet
            ELSE /\ err = "none"
                 /\ ret.kind = "tensor"
                 /\ Dim(ret.t) = 2
                 /\ Size(ret.t, args.len_dim) = args.max_len
                 /\ Size(ret.t, args.ch_dim) = ch
                 /\ \A c \in 0..(ch - 1) : \A l \in 0..(args.max_len - 1) :
                        AtLC(ret.t, args.len_dim, l, c) =
                            IF l < old_len THEN AtLC(t, args.len_dim, l, c)
                            ELSE args.fill_value
                 /\ (args.max_len = old_len => ret.t = t)

\* a call that padded a tensor of more than one channel
PadTrimPadded ==
    /\ op = "pad_trim"
    /\ args.ch_dim # args.len_dim
    /\ err = "none"
    /\ Size(args.tensor, args.ch_dim) = 2
    /\ args.max_len > Size(args.tensor, args.len_dim)
    /\ args.len_dim = 0

(***************************************************************************)
(* spectrogram(sig, pad, window, n_fft, hop, ws, power, normalize)         *)
(*                                                                         *)
(* Samples and window taps are integers.  The spectrum is fixed-point with *)
(* FX units to 1.  n_fft is 2 or 4, where every twiddle factor of the DFT  *)
(* is one of 1, -i, -1, i, so the transform is exact.                      *)
(***************************************************************************)
\* longest signal, in samples
MaxT == 3
\* largest pad argument
MaxPad == 2

FX == 10 ^ 3

\* a / b rounded toward zero
TDiv(a, b) == Sign(a) * Sign(b) * (Abs(a) \div Abs(b))

RECURSIVE SqrtSearch(_, _, _)
\* the largest r in lo..hi with r * r <= n
SqrtSearch(n, lo, hi) ==
    IF lo >= hi THEN lo
    ELSE LET mid == (lo + hi + 1) \div 2
         IN  IF mid * mid <= n THEN SqrtSearch(n, mid, hi)
             ELSE SqrtSearch(n, lo, mid - 1)

\* floor of the square root of n, 0 <= n < 2^30
ISqrt(n) == SqrtSearch(n, 0, 32767)

RECURSIVE SumTo(_, _)
\* f[0] + ... + f[n - 1]
SumTo(f, n) == IF n <= 0 THEN 0 ELSE f[n - 1] + SumTo(f, n - 1)

\* length of the last axis, and number of rows of that length
LastDim(t) == t.shape[Len(t.shape)]

Rows(t) == Len(t.data) \div LastDim(t)

\* sample j of row r, both 0-based
RowAt(t, r, j) == t.data[r * LastDim(t) + j + 1]

\* the tensor t with every row replaced: n entries, entry j of row r is g[r][j]
\* (appending <<>> has TLC build the sequence once instead of on every read)
WithRows(t, n, g) ==
    [shape |-> [k \in 1..Len(t.shape) |-> IF k = Len(t.shape) THEN n ELSE t.shape[k]] \o <<>>,
     data  |-> [m \in 1..(Rows(t) * n) |-> g[(m - 1) \div n][(m - 1) % n]] \o <<>>]

\* torch.nn.functional.pad(t, (l, r), "constant"): zeros on the last axis
ConstantPadLast(t, l, r) ==
    LET T == LastDim(t)
    IN  WithRows(t, T + l + r,
            [row \in 0..(Rows(t) - 1) |-> [j \in 0..(T + l + r - 1) |->
                IF j >= l /\ j < l + T THEN RowAt(t, row, j - l) ELSE 0]])

\* the sample that position i outside 0..T-1 mirrors: the signal is reflected
\* about its first and last sample, without repeating them
ReflectIndex(i, T) ==
    IF T = 1 THEN 0
    ELSE LET m == i % (2 * (T - 1))
         IN  IF m < T THEN m ELSE 2 * (T - 1) - m

\* pad mode "reflect" on the last axis
ReflectPadLast(t, l, r) ==
    LET T == LastDim(t)
    IN  WithRows(t, T + l + r,
            [row \in 0..(Rows(t) - 1) |-> [j \in 0..(T + l + r - 1) |->
                RowAt(t, row, ReflectIndex(j - l, T))]])

\* cos and sin of a multiple q of a quarter turn
CosQ(q) == <<1, 0, -1, 0>>[(q % 4) + 1]

SinQ(q) == <<0, 1, 0, -1>>[(q % 4) + 1]

RECURSIVE DftRe(_, _, _, _, _, _, _)
\* real part of terms 0..n of bin k of the windowed DFT of the n_fft samples of
\* row r that start at s: the terms are window[n] * x[s + n] * exp(-2 pi i k n / n_fft)
DftRe(t, r, s, window, n_fft, k, n) ==
    IF n < 0 THEN 0
    ELSE window[n + 1] * RowAt(t, r, s + n) * CosQ(k * n * (4 \div n_fft))
         + DftRe(t, r, s, window, n_fft, k, n - 1)

RECURSIVE DftIm(_, _, _, _, _, _, _)
\* imaginary part of the same terms
DftIm(t, r, s, window, n_fft, k, n) ==
    IF n < 0 THEN 0
    ELSE DftIm(t, r, s, window, n_fft, k, n - 1)
         - window[n + 1] * RowAt(t, r, s + n) * SinQ(k * n * (4 \div n_fft))

\* bin k of that DFT, as <<re, im>>
StftBin(t, r, s, window, n_fft, k) ==
    <<DftRe(t, r, s, window, n_fft, k, n_fft - 1), DftIm(t, r, s, window, n_fft, k, n_fft - 1)>>

\* number of frames of a centered STFT over T samples
Frames(T, n_fft, hop) == 1 + ((T + 2 * (n_fft \div 2) - n_fft) \div hop)

\* torch.stft(sig, n_fft, hop, ws, window, center=True, normalized=False,
\* onesided=True, pad_mode='reflect').transpose(1, 2): [err, bins], bins the
\* <<re, im>> pairs in the order (row, frame, frequency bin)
Stft(sig, n_fft, hop, ws, window) ==
    IF Dim(sig) \notin {1, 2} THEN [err |-> "RuntimeError", bins |-> <<>>]
    ELSE IF n_fft \div 2 >= LastDim(sig) THEN [err |-> "RuntimeError", bins |-> <<>>]
    ELSE LET x == ReflectPadLast(sig, n_fft \div 2, n_fft \div 2)
             nf == Frames(LastDim(sig), n_fft, hop)
             nk == (n_fft \div 2) + 1
         IN  [err  |-> "none",
              bins |-> [m \in 1..(Rows(sig) * nf * nk) |->
                          StftBin(x, (m - 1) \div (nf * nk), (((m - 1) \div nk) % nf) * hop,
                                  window, n_fft, (m - 1) % nk)] \o <<>>]

\* window.pow(2).sum().sqrt(), fixed-point
WindowNorm(window) ==
    ISqrt(SumTo([n \in 0..(Len(window) - 1) |-> window[n + 1] * window[n + 1]],
                Len(window)) * FX * FX)

\* spec_f /= norm on one component, all fixed-point
Normalize(v, norm) == TDiv(v * FX, norm)

\* v.pow(power), fixed-point in and out, power >= 1
RECURSIVE FxPow(_, _)
FxPow(v, power) == IF power <= 1 THEN v ELSE TDiv(v * FxPow(v, power - 1), FX)

\* spec_f.pow(power).sum(-1) on one bin
PowerSum(re, im, power) == FxPow(re, power) + FxPow(im, power)

\* the padding step with the mode of the STFT's own padding
SpectrogramPadReflect(sig, pad) ==
    IF pad > 0 THEN ReflectPadLast(sig, pad, pad) ELSE sig

\* if pad > 0: sig = torch.nn.functional.pad(sig, (pad, pad), "constant")
SpectrogramPad(sig, pad) ==
    IF pad > 0 THEN ConstantPadLast(sig, pad, pad) ELSE sig

\* the ranks the leading assertion lets through, were it to admit rank 1 too
AcceptsRankUpTo2(sig) == Dim(sig) \in {1, 2}

\* assert sig.dim() == 2
AcceptsRank(sig) == Dim(sig) = 2

\* [err, ret, calls, stft_in]: calls lists the library calls made, in order
spectrogram(sig, pad, window, n_fft, hop, ws, power, normalize) ==
    IF ~AcceptsRank(sig)
    THEN [err |-> "AssertionError", ret |-> NoRet, calls |-> <<>>, stft_in |-> NoTensor]
    ELSE LET padded == SpectrogramPad(sig, pad)
             made == (IF pad > 0 THEN <<"pad">> ELSE <<>>) \o <<"stft">>
             st == Stft(padded, n_fft, hop, ws, window)
         IN  IF st.err # "none"
             THEN [err |-> st.err, ret |-> NoRet, calls |-> made, stft_in |-> padded]
             ELSE LET nc == Rows(padded)
                      nf == Frames(LastDim(padded), n_fft, hop)
                      nk == (n_fft \div 2) + 1
                      norm == WindowNorm(window)
                      comp(v) == IF normalize THEN Normalize(v * FX, norm) ELSE v * FX
                      out == [m \in 1..(nc * nf * nk) |->
                                 PowerSum(comp(st.bins[m][1]), comp(st.bins[m][2]), power)]
                  IN  [err |-> "none",
                       ret |-> TensorRet([shape |-> IF Dim(sig) = 2 THEN <<nc, nf, nk>>
                                                    ELSE <<nf, nk>>,
                                          data |-> out]),
                       calls |-> made,
                       stft_in |-> padded]

SampleVals == {-1, 2}

\* every tensor of the given shape over SampleVals
AllTensors(shape, n) == {[shape |-> shape, data |-> d] : d \in [1..n -> SampleVals]}

\* a row of n samples, all v
ConstRow(n, v) == [j \in 1..n |-> v] \o <<>>

\* signals of rank 2: one channel, or a second channel of constant samples;
\* and signals of rank 1 and 3
Signals ==
    UNION {AllTensors(<<1, T>>, T) : T \in 1..MaxT}
    \cup UNION {{[shape |-> <<2, T>>, data |-> x.data \o ConstRow(T, v)] :
                    x \in AllTensors(<<1, T>>, T), v \in SampleVals} : T \in 1..MaxT}
    \cup UNION {AllTensors(<<T>>, T) : T \in 1..MaxT}
    \cup UNION {AllTensors(<<1, 1, T>>, T) : T \in 1..MaxT}

\* the windows of each frame length: rectangular, and a tapered one
Windows(n_fft) ==
    IF n_fft = 2 THEN {<<1, 1>>, <<1, 2>>} ELSE {<<1, 1, 1, 1>>, <<1, 3, 3, 1>>}

CallSpectrogram ==
    /\ op = "none"
    /\ \E sig \in Signals, pad \in (-1)..MaxPad, n_fft \in {2, 4}, hop \in {1, 2},
          power \in {1, 2}, normalize \in BOOLEAN :
        \E window \in Windows(n_fft) :
            \E r \in {spectrogram(sig, pad, window, n_fft, hop, n_fft, power, normalize)} :
                /\ op' = "spectrogram"
                /\ args' = [sig |-> sig, pad |-> pad, window |-> window, n_fft |-> n_fft,
                            hop |-> hop, ws |-> n_fft, power |-> power,
                            normalize |-> normalize]
                /\ ret' = r.ret
                /\ err' = r.err
                /\ calls' = r.calls
                /\ stft_in' = r.stft_in
                /\ prev' = args

NextSpectrogram == CallSpectrogram

SpecSpectrogram == Init /\ [][NextSpectrogram]_vars

(***************************************************************************)
(* C1: for a 2-D input and power 1 or 2, normalized or not, every element  *)
(* of the output of spectrogram is >= 0.                                   *)
(***************************************************************************)
SpectrogramNonNegative ==
    (op = "spectrogram" /\ err = "none") =>
        \A m \in 1..Len(ret.t.data) : ret.t.data[m] >= 0

(***************************************************************************)
(* C2: spectrogram on a waveform whose rank is not 2 fails on the leading  *)
(* assertion, before any padding or STFT, and returns nothing; on a rank-2 *)
(* waveform that assertion does not fail.                                  *)
(***************************************************************************)
SpectrogramRankChecked ==
    op = "spectrogram" =>
        /\ Dim(args.sig) # 2 =>
              /\ err = "AssertionError"
              /\ ret = NoRet
              /\ calls = <<>>
              /\ stft_in = NoTensor
        /\ Dim(args.sig) = 2 => err # "AssertionError"

\* a rank-3 waveform, with padding asked for, was rejected
SpectrogramRejectedRank3 ==
    /\ op = "spectrogram"
    /\ Dim(args.sig) = 3
    /\ args.pad > 0
    /\ err = "AssertionError"

(***************************************************************************)
(* C3: with pad > 0 the signal handed to the STFT is the input with pad    *)
(* more samples on each side of every channel, and the added samples       *)
(* mirror the signal about its first and last sample; with pad <= 0 it is  *)
(* the input.                                                              *)
(***************************************************************************)
SpectrogramPadsByReflection ==
    (op = "spectrogram" /\ Dim(args.sig) = 2) =>
        LET T == LastDim(args.sig)
        IN  IF args.pad > 0
            THEN /\ stft_in.shape = <<Size(args.sig, 0), T + 2 * args.pad>>
                 /\ \A c \in 0..(Size(args.sig, 0) - 1) :
                    \A j \in 0..(T + 2 * args.pad - 1) :
                        RowAt(stft_in, c, j) =
                            RowAt(args.sig, c, ReflectIndex(j - args.pad, T))
            ELSE stft_in = args.sig

(***************************************************************************)
(* C3, amended: with pad > 0 the signal handed to the STFT is the input    *)
(* with pad more samples on each side of every channel, and the added      *)
(* samples are zeros; with pad <= 0 it is the input.                       *)
(***************************************************************************)
SpectrogramPadsWithZeros ==
    (op = "spectrogram" /\ Dim(args.sig) = 2) =>
        LET T == LastDim(args.sig)
        IN  IF args.pad > 0
            THEN /\ stft_in.shape = <<Size(args.sig, 0), T + 2 * args.pad>>
                 /\ \A c \in 0..(Size(args.sig, 0) - 1) :
                    \A j \in 0..(T + 2 * args.pad - 1) :
                        RowAt(stft_in, c, j) =
                            IF j >= args.pad /\ j < args.pad + T
                            THEN RowAt(args.sig, c, j - args.pad)
                            ELSE 0
            ELSE stft_in = args.sig

\* a two-channel signal was padded and transformed
SpectrogramPadded ==
    /\ op = "spectrogram"
    /\ Dim(args.sig) = 2
    /\ Size(args.sig, 0) = 2
    /\ args.pad > 0
    /\ calls = <<"pad", "stft">>
    /\ err = "none"

(***************************************************************************)
(* Fixed-point reals for the logarithmic transforms: ONE units to 1.       *)
(* Products and quotients round toward minus infinity, so that every       *)
(* operator below is monotone as its floating-point original is.           *)
(***************************************************************************)
ONE == 2 ^ 14

FxMul(a, b) == (a * b) \div ONE

RECURSIVE Log2Frac(_, _)
\* the fraction bits of log2(m / ONE) below bit weight w, for ONE <= m < 2 * ONE:
\* squaring the mantissa doubles its logarithm
Log2Frac(m, w) ==
    IF w = 0 THEN 0
    ELSE LET sq == (m * m) \div ONE
         IN  IF sq >= 2 * ONE THEN w + Log2Frac(sq \div 2, w \div 2)
             ELSE Log2Frac(sq, w \div 2)

RECURSIVE Log2Fx(_)
\* log2(v / ONE) in fixed point, v > 0
Log2Fx(v) ==
    IF v >= 2 * ONE THEN ONE + Log2Fx(v \div 2)
    ELSE IF v < ONE THEN Log2Fx(2 * v) - ONE
    ELSE Log2Frac(v, ONE \div 2)

\* log10(2) in fixed point
Log10Of2 == (30103 * ONE) \div 100000

\* torch.log10 on one element, fixed point in and out, v > 0
Log10Fx(v) == FxMul(Log2Fx(v), Log10Of2)

(***************************************************************************)
(* spectrogram_to_DB(spec, multiplier, amin, db_multiplier, top_db)        *)
(*                                                                         *)
(* spec is a tensor (channel, frame) of fixed-point values, multiplier an  *)
(* integer, the other arguments fixed-point; top_db is [given |-> FALSE]   *)
(* for None and [given |-> TRUE, v |-> value] otherwise.                   *)
(***************************************************************************)
\* most frames per channel
MaxFrames == 2

RECURSIVE MaxOver(_, _)
\* the largest of s[1..n], n >= 1
MaxOver(s, n) == IF n = 1 THEN s[1] ELSE Max(s[n], MaxOver(s, n - 1))

\* multiplier * torch.log10(torch.clamp(spec, min=amin)) - multiplier * db_multiplier
DbScale(spec, multiplier, amin, db_multiplier) ==
    [m \in 1..Len(spec.data) |->
        multiplier * Log10Fx(Max(spec.data[m], amin)) - multiplier * db_multiplier] \o <<>>

\* a maximum taken over each channel's frames instead of the whole tensor
DbMaxPerChannel(spec, db) ==
    [m \in 1..Len(db) |->
        LET c == (m - 1) \div LastDim(spec)
        IN  MaxOver([j \in 1..LastDim(spec) |-> db[c * LastDim(spec) + j]], LastDim(spec))]

\* spec_db.max(), as the value each element sees
DbMax(spec, db) == [m \in 1..Len(db) |-> MaxOver(db, Len(db))]

spectrogram_to_DB(spec, multiplier, amin, db_multiplier, top_db) ==
    LET spec_db == DbScale(spec, multiplier, amin, db_multiplier)
    IN  IF top_db.given
        THEN LET top == DbMax(spec, spec_db) \o <<>>
             IN  Ok([shape |-> spec.shape,
                     data  |-> [m \in 1..Len(spec_db) |->
                                   Max(spec_db[m], top[m] - top_db.v)] \o <<>>])
        ELSE Ok([shape |-> spec.shape, data |-> spec_db])

\* silence, unit power and a loud value
DbVals == {0, ONE, 100 * ONE}

DbSpecs ==
    UNION {{[shape |-> <<c, l>>, data |-> d] : d \in [1..(c * l) -> DbVals]} :
              c \in {1, 2}, l \in 1..MaxFrames}

DbTops == {[given |-> FALSE, v |-> 0]}
          \cup {[given |-> TRUE, v |-> v] : v \in {0, 5 * ONE, 80 * ONE}}

CallSpectrogramToDB ==
    /\ op = "none"
    /\ \E spec \in DbSpecs, multiplier \in {10, 20}, amin \in {1, ONE \div 4},
          db_multiplier \in {0, ONE}, top_db \in DbTops :
        \E r \in {spectrogram_to_DB(spec, multiplier, amin, db_multiplier, top_db)} :
            /\ op' = "spectrogram_to_DB"
            /\ args' = [spec |-> spec, multiplier |-> multiplier, amin |-> amin,
                        db_multiplier |-> db_multiplier, top_db |-> top_db]
            /\ ret' = r.ret
            /\ err' = r.err
            /\ prev' = args
            /\ UNCHANGED <<calls, stft_in>>

NextDB == CallSpectrogramToDB

SpecDB == Init /\ [][NextDB]_vars

(***************************************************************************)
(* C4: with r the unclamped decibel values and M the largest r over the    *)
(* whole tensor, a given top_db makes every output element max(r, M -      *)
(* top_db), so that the outputs lie in [M - top_db, M] and the elements    *)
(* already at or above M - top_db are unchanged; without top_db the output *)
(* is r.                                                                   *)
(***************************************************************************)
DbFloorIsGlobal ==
    op = "spectrogram_to_DB" =>
        LET r == DbScale(args.spec, args.multiplier, args.amin, args.db_multiplier)
            M == MaxOver(r, Len(r))
            out == ret.t.data
        IN  /\ err = "none"
            /\ ret.t.shape = args.spec.shape
            /\ Len(out) = Len(r)
            /\ IF args.top_db.given
               THEN \A m \in 1..Len(r) :
                       /\ out[m] = Max(r[m], M - args.top_db.v)
                       /\ out[m] >= M - args.top_db.v
                       /\ out[m] <= M
                       /\ (r[m] >= M - args.top_db.v => out[m] = r[m])
               ELSE out = r

\* the loudest element is in one channel and the floor lifted an element of
\* the other, whose own maximum is lower
DbFloorAcrossChannels ==
    /\ op = "spectrogram_to_DB"
    /\ args.top_db.given
    /\ Size(args.spec, 0) = 2
    /\ LET r == DbScale(args.spec, args.multiplier, args.amin, args.db_multiplier)
           T == LastDim(args.spec)
       IN  /\ \E j \in 1..T : ret.t.data[T + j] > r[T + j]
           /\ \A j \in 1..T : r[T + j] < MaxOver(r, Len(r))
           /\ \E j \in 1..T : ret.t.data[j] = r[j]

(***************************************************************************)
(* create_fb_matrix(n_stft, f_min, f_max, n_mels)                          *)
(*                                                                         *)
(* f_min and f_max are whole Hertz.  Mel values are fixed-point with ONE   *)
(* units to 1, frequencies with FQ units to 1 Hz, filter weights floats    *)
(* with ONE units to 1: [cls |-> "num", v |-> value], or not-a-number, or  *)
(* an infinity with its sign in v.                                         *)
(***************************************************************************)
\* most frequency bins
MaxStft == 4
\* most mel bands
MaxMels == 3

FQ == 2 ^ 4

\* a / b rounded toward minus infinity, b # 0
FloorDiv(a, b) == IF b > 0 THEN a \div b ELSE (-a) \div (-b)

\* 2^(1/2), 2^(1/4), ..., 2^(1/2^14) in fixed point
Exp2Table ==
    <<23170, 19484, 17867, 17109, 16743, 16562, 16473,
      16428, 16406, 16395, 16390, 16387, 16385, 16385>>

RECURSIVE Exp2Frac(_, _, _)
\* acc * 2^(frac / ONE), taking the fraction bits of frac from bit i on
Exp2Frac(frac, i, acc) ==
    IF i > 14 THEN acc
    ELSE LET w == ONE \div (2 ^ i)
         IN  IF frac >= w THEN Exp2Frac(frac - w, i + 1, FxMul(acc, Exp2Table[i]))
             ELSE Exp2Frac(frac, i + 1, acc)

\* 2^(z / ONE) in fixed point
Exp2Fx(z) ==
    LET n == z \div ONE
        m == Exp2Frac(z % ONE, 1, ONE)
    IN  IF n >= 0 THEN m * (2 ^ n) ELSE m \div (2 ^ (-n))

\* log2(10) in fixed point
Log2Of10 == (33219 * ONE) \div 10000

\* 10 ** y, fixed point in and out
Pow10Fx(y) == Exp2Fx(FxMul(y, Log2Of10))

\* _hertz_to_mel: 2595. * torch.log10(torch.tensor(1.) + (f / 700.)), f in Hz
HertzToMel(f) == 2595 * Log10Fx(ONE + ((f * ONE) \div 700))

\* _mel_to_hertz: 700. * (10**(mel / 2595.) - 1.), the result in FQ units
MelToHertz(mel) == (700 * (Pow10Fx(FloorDiv(mel, 2595)) - ONE)) \div (ONE \div FQ)

\* torch.linspace(start, end, steps): steps values, 0-based, for steps >= 0
Linspace(start, end, steps) ==
    [i \in 0..(steps - 1) |->
        IF steps = 1 THEN start ELSE start + FloorDiv(i * (end - start), steps - 1)]

Num(v) == [cls |-> "num", v |-> v]

NaN == [cls |-> "nan", v |-> 0]

Inf(sign) == [cls |-> "inf", v |-> sign]

\* a / b as a float: 0 / 0 is not a number, anything else over 0 an infinity
FloatDiv(a, b) ==
    IF b = 0 THEN (IF a = 0 THEN NaN ELSE Inf(Sign(a)))
    ELSE Num(FloorDiv(a * ONE, b))

\* the order of the floats that are numbers or infinities
FloatKey(x) == IF x.cls = "inf" THEN x.v * (2 ^ 30) ELSE x.v

\* torch.min and torch.max on one element: not-a-number propagates
FloatMin(x, y) ==
    IF x.cls = "nan" \/ y.cls = "nan" THEN NaN
    ELSE IF FloatKey(x) <= FloatKey(y) THEN x ELSE y

FloatMax(x, y) ==
    IF x.cls = "nan" \/ y.cls = "nan" THEN NaN
    ELSE IF FloatKey(x) >= FloatKey(y) THEN x ELSE y

\* stft_freqs = torch.linspace(f_min, f_max, n_stft), in FQ units
StftFreqs(n_stft, f_min, f_max) == Linspace(f_min * FQ, f_max * FQ, n_stft)

\* m_min, m_max, m_pts and f_pts: the n_mels + 2 band edges, in FQ units
FbPoints(f_min, f_max, n_mels) ==
    LET m_min == IF f_min = 0 THEN 0 ELSE HertzToMel(f_min)
        m_max == HertzToMel(f_max)
        m_pts == Linspace(m_min, m_max, n_mels + 2)
    IN  [j \in 0..(n_mels + 1) |-> MelToHertz(m_pts[j])]

\* the weight without the floor at zero
FbWeightNoFloor(down, up) == FloatMin(down, up)

\* torch.max(z, torch.min(down_slopes, up_slopes)) on one element
FbWeight(down, up) == FloatMax(Num(0), FloatMin(down, up))

create_fb_matrix(n_stft, f_min, f_max, n_mels) ==
    IF n_mels + 2 < 0 THEN Raise("RuntimeError")
    ELSE IF n_mels <= 0 THEN Ok([shape |-> <<n_stft, 0>>, data |-> <<>>])
    ELSE LET s == StftFreqs(n_stft, f_min, f_max)
             f == FbPoints(f_min, f_max, n_mels)
             f_pts == [j \in 1..(n_mels + 2) |-> f[j - 1]] \o <<>>
             \* slopes[i][j] = f_pts[j] - stft_freqs[i]; f_diff[j] = f_pts[j + 1] - f_pts[j]
             down(i, j) == FloatDiv(-(f_pts[j + 1] - s[i]), f_pts[j + 2] - f_pts[j + 1])
             up(i, j) == FloatDiv(f_pts[j + 3] - s[i], f_pts[j + 3] - f_pts[j + 2])
         IN  Ok([shape |-> <<n_stft, n_mels>>,
                 data  |-> [m \in 1..(n_stft * n_mels) |->
                               LET i == (m - 1) \div n_mels
                                   j == (m - 1) % n_mels
                               IN  FbWeight(down(i, j), up(i, j))] \o <<>>])

FbFreqs == {0, 300, 2000, 4000}

CallCreateFbMatrix ==
    /\ op = "none"
    /\ \E n_stft \in 1..MaxStft, f_min \in {0, 300}, f_max \in FbFreqs,
          n_mels \in (-3)..MaxMels :
        \E r \in {create_fb_matrix(n_stft, f_min, f_max, n_mels)} :
            /\ op' = "create_fb_matrix"
            /\ args' = [n_stft |-> n_stft, f_min |-> f_min, f_max |-> f_max,
                        n_mels |-> n_mels]
            /\ ret' = r.ret
            /\ err' = r.err
            /\ prev' = args
            /\ UNCHANGED <<calls, stft_in>>

(***************************************************************************)
(* create_dct(n_mfcc, n_mels, norm)                                        *)
(*                                                                         *)
(* norm is a string, "None" standing for None.  Matrix entries are         *)
(* fixed-point with DS units to 1.  n_mels divides 12 where a matrix is    *)
(* built, so that every angle is a multiple of pi / 24.                    *)
(***************************************************************************)
DS == 10 ^ 4

\* cos(m * pi / 24) for m = 0..12, in DS units
CosTable == <<10000, 9914, 9659, 9239, 8660, 7934, 7071, 6088, 5000, 3827, 2588, 1305, 0>>

\* np.cos of m * pi / 24, m >= 0
Cos24(m) ==
    LET a == m % 48
        b == IF a > 24 THEN 48 - a ELSE a
    IN  IF b > 12 THEN -CosTable[(24 - b) + 1] ELSE CosTable[b + 1]

\* dct[k][n] = np.cos(np.pi / dim * (n + 0.5) * k)
DctCos(dim, n, k) == Cos24(((2 * n + 1) * k * 12) \div dim)

\* dct[0] *= 1.0 / np.sqrt(2) on one entry
DctScaleRow0(v) == (v * ISqrt((DS * DS) \div 2)) \div DS

\* dct *= np.sqrt(2.0 / dim) on one entry
DctScaleOrtho(v, dim) == (v * ISqrt((2 * DS * DS) \div dim)) \div DS

\* if norm == 'ortho': ... else: ...
DctNorm(norm) == IF norm = "ortho" THEN "ortho" ELSE "scale"

create_dct(n_mfcc, n_mels, norm) ==
    LET outdim == n_mfcc
        dim == n_mels
        rows == Max(outdim, 0)
        cols == Max(dim, 0)
        entry(k, n) ==
            IF DctNorm(norm) = "ortho"
            THEN DctScaleOrtho(IF k = 0 THEN DctScaleRow0(DctCos(dim, n, k))
                               ELSE DctCos(dim, n, k), dim)
            ELSE DctCos(dim, n, k) * 2
    IN  IF dim = 0 THEN Raise("ZeroDivisionError")
        ELSE IF DctNorm(norm) = "ortho" /\ rows = 0 THEN Raise("IndexError")
        ELSE Ok([shape |-> <<cols, rows>>,
                 data  |-> [m \in 1..(cols * rows) |->
                               entry((m - 1) % rows, (m - 1) \div rows)] \o <<>>])

DctNorms == {"ortho", "None", "slaney"}

CallCreateDct ==
    /\ op = "none"
    /\ \E n_mfcc \in (-1)..3, n_mels \in (-1)..4, norm \in DctNorms :
        \E r \in {create_dct(n_mfcc, n_mels, norm)} :
            /\ op' = "create_dct"
            /\ args' = [n_mfcc |-> n_mfcc, n_mels |-> n_mels, norm |-> norm]
            /\ ret' = r.ret
            /\ err' = r.err
            /\ prev' = args
            /\ UNCHANGED <<calls, stft_in>>

NextBuilders == CallCreateFbMatrix \/ CallCreateDct

SpecBuilders == Init /\ [][NextBuilders]_vars

(***************************************************************************)
(* C5: create_dct with a norm that is neither "ortho" nor None fails and   *)
(* returns no matrix: it does not fall back to the basis scaled by 2.      *)
(***************************************************************************)
DctRejectsUnknownNorm ==
    (op = "create_dct" /\ args.norm \notin {"ortho", "None"}) =>
        err # "none" /\ ret = NoRet

(***************************************************************************)
(* C8: for n_stft >= 1, f_min >= 0, f_max > f_min and n_mels >= 1,         *)
(* create_fb_matrix returns an (n_stft, n_mels) matrix with every entry in *)
(* [0, 1]; each column, read along increasing frequency bin, rises to its  *)
(* maximum and falls after it, and is 0 at and outside the band's left and *)
(* right edge frequencies.                                                 *)
(***************************************************************************)
\* entry (i, j) of the returned matrix, 0-based
FbAt(i, j) == ret.t.data[i * args.n_mels + j + 1]

FbTriangles ==
    (op = "create_fb_matrix" /\ args.n_stft >= 1 /\ args.f_min >= 0
        /\ args.f_max > args.f_min /\ args.n_mels >= 1) =>
        LET n == args.n_stft
            s == StftFreqs(n, args.f_min, args.f_max)
            f == FbPoints(args.f_min, args.f_max, args.n_mels)
        IN  /\ err = "none"
            /\ ret.t.shape = <<n, args.n_mels>>
            /\ Len(ret.t.data) = n * args.n_mels
            /\ \A i \in 0..(n - 1) : \A j \in 0..(args.n_mels - 1) :
                  /\ FbAt(i, j).cls = "num"
                  /\ FbAt(i, j).v >= 0
                  /\ FbAt(i, j).v <= ONE
                  /\ (s[i] <= f[j] \/ s[i] >= f[j + 2]) => FbAt(i, j).v = 0
            /\ \A j \in 0..(args.n_mels - 1) :
                  \E p \in 0..(n - 1) :
                      /\ \A i \in 0..(p - 1) : FbAt(i, j).v <= FbAt(i + 1, j).v
                      /\ \A i \in p..(n - 2) : FbAt(i, j).v >= FbAt(i + 1, j).v

\* a matrix of several bands whose middle column rises and falls again
FbBandPeaksInside ==
    /\ op = "create_fb_matrix"
    /\ err = "none"
    /\ args.f_max > args.f_min
    /\ args.n_mels >= 2
    /\ \E i \in 1..(args.n_stft - 2) :
          /\ FbAt(i, 1).v > FbAt(i - 1, 1).v
          /\ \E k \in (i + 1)..(args.n_stft - 1) : FbAt(k, 1).v < FbAt(i, 1).v /\ FbAt(k, 1).v > 0

(***************************************************************************)
(* C9: create_fb_matrix with f_max <= f_min or n_mels <= 0, and create_dct *)
(* with n_mels <= 0 or n_mfcc <= 0, fail and return no matrix.             *)
(***************************************************************************)
BuildersRejectBadArguments ==
    /\ (op = "create_fb_matrix" /\ (args.f_max <= args.f_min \/ args.n_mels <= 0)) =>
          err # "none" /\ ret = NoRet
    /\ (op = "create_dct" /\ (args.n_mels <= 0 \/ args.n_mfcc <= 0)) =>
          err # "none" /\ ret = NoRet

(***************************************************************************)
(* mu_law_encoding(x, qc) and mu_law_expanding(x, qc)                      *)
(*                                                                         *)
(* A waveform is [kind, data]: a numpy array or a torch tensor of          *)
(* fixed-point samples, ONE units to 1.  Codes are integers.               *)
(***************************************************************************)
\* most samples of a waveform
MaxSamples == 2
\* the samples are the multiples of 1 / Grid in [-1, 1]
Grid == 4

\* ln(2) and log2(e) in fixed point
Ln2 == (69315 * ONE) \div 100000

Log2OfE == (14427 * ONE) \div 10000

\* log1p(y), fixed point in and out, y >= 0
Log1pFx(y) == FxMul(Log2Fx(ONE + y), Ln2)

\* exp(y), fixed point in and out
ExpFx(y) == Exp2Fx(FxMul(y, Log2OfE))

\* the companding with the sign of the sample dropped
MuLawCompandNoSign(x, mu) == FloorDiv(Log1pFx(mu * Abs(x)) * ONE, Log1pFx(mu * ONE))

\* sign(x) * log1p(mu * abs(x)) / log1p(mu) on one sample
MuLawCompand(x, mu) == Sign(x) * FloorDiv(Log1pFx(mu * Abs(x)) * ONE, Log1pFx(mu * ONE))

\* ((x_mu + 1) / 2 * mu + 0.5), cut to an integer toward zero
MuLawQuantize(x_mu, mu) == TDiv(((x_mu + ONE) \div 2) * mu + (ONE \div 2), ONE)

mu_law_encoding(x, qc) ==
    LET mu == qc - 1
    IN  IF x.kind \in {"ndarray", "Tensor"}
        THEN Ok([shape |-> <<Len(x.data)>>,
                 data  |-> [i \in 1..Len(x.data) |->
                               MuLawQuantize(MuLawCompand(x.data[i], mu), mu)] \o <<>>])
        ELSE Raise("UnboundLocalError")

\* lines 174-175 and 180-181 on one code: rescale to [-1, 1], then expand
MuLawExpand(code, mu) ==
    LET x == FloorDiv(code * ONE, mu) * 2 - ONE
    IN  Sign(x) * FloorDiv(ExpFx(FxMul(Abs(x), Log1pFx(mu * ONE))) - ONE, mu)

\* the names bound in mu_law_expanding when line 173 reads x_mu: the
\* parameters and mu.  x_mu is assigned further down (line 178), which makes
\* it a local name of the function: no outer x_mu is ever consulted
ExpandingBound == {"x", "qc", "mu"}

mu_law_expanding(x, qc) ==
    LET mu == qc - 1
    IN  IF "x_mu" \notin ExpandingBound THEN Raise("UnboundLocalError")
        ELSE Ok([shape |-> <<Len(x.data)>>,
                 data  |-> [i \in 1..Len(x.data) |-> MuLawExpand(x.data[i], mu)] \o <<>>])

MuLawSamples == {FloorDiv(k * ONE, Grid) : k \in (-Grid)..Grid}

MuLawWaveforms ==
    UNION {{[kind |-> kind, data |-> d] : d \in [1..n -> MuLawSamples],
                                          kind \in {"ndarray", "Tensor"}} :
              n \in 1..MaxSamples}

MuLawChannels == {2, 3, 4, 16, 256}

CallMuLawEncoding ==
    /\ op = "none"
    /\ \E x \in MuLawWaveforms, qc \in MuLawChannels :
        \E r \in {mu_law_encoding(x, qc)} :
            /\ op' = "mu_law_encoding"
            /\ args' = [x |-> x, qc |-> qc]
            /\ ret' = r.ret
            /\ err' = r.err
            /\ prev' = args
            /\ UNCHANGED <<calls, stft_in>>

\* decode what the last call encoded, with the same number of channels
CallMuLawExpanding ==
    /\ op = "mu_law_encoding"
    /\ err = "none"
    /\ \E r \in {mu_law_expanding([kind |-> args.x.kind, data |-> ret.t.data], args.qc)} :
            /\ op' = "mu_law_expanding"
            /\ args' = [x |-> [kind |-> args.x.kind, data |-> ret.t.data], qc |-> args.qc]
            /\ ret' = r.ret
            /\ err' = r.err
            /\ prev' = args
            /\ UNCHANGED <<calls, stft_in>>

NextMuLaw == CallMuLawEncoding \/ CallMuLawExpanding

SpecMuLaw == Init /\ [][NextMuLaw]_vars

(***************************************************************************)
(* C6: decoding what mu_law_encoding returned for samples in [-1, 1], with *)
(* the same number of channels Q >= 2, completes without error, works on   *)
(* the codes it was passed, and returns values within 2 / (Q - 1) of the   *)
(* samples.                                                                *)
(***************************************************************************)
MuLawRoundTrip ==
    op = "mu_law_expanding" =>
        /\ err = "none"
        /\ ret.kind = "tensor"
        /\ Len(ret.t.data) = Len(prev.x.data)
        /\ \A i \in 1..Len(prev.x.data) :
              /\ ret.t.data[i] = MuLawExpand(args.x.data[i], args.qc - 1)
              /\ Abs(ret.t.data[i] - prev.x.data[i]) * (args.qc - 1) <= 2 * ONE

(***************************************************************************)
(* C7: for samples in [-1, 1] and Q >= 2 channels, mu_law_encoding returns *)
(* one integer code in 0..Q-1 per sample, 0 for -1 and Q - 1 for 1, and a  *)
(* larger sample never gets a smaller code.                                *)
(***************************************************************************)
MuLawCodesOrdered ==
    op = "mu_law_encoding" =>
        /\ err = "none"
        /\ ret.t.shape = <<Len(args.x.data)>>
        /\ Len(ret.t.data) = Len(args.x.data)
        /\ \A i \in 1..Len(args.x.data) :
              /\ ret.t.data[i] \in 0..(args.qc - 1)
              /\ args.x.data[i] = -ONE => ret.t.data[i] = 0
              /\ args.x.data[i] = ONE => ret.t.data[i] = args.qc - 1
              /\ \A j \in 1..Len(args.x.data) :
                    args.x.data[i] <= args.x.data[j] => ret.t.data[i] <= ret.t.data[j]

\* a negative and a positive sample of one waveform got different codes,
\* neither the lowest nor the highest
MuLawEncodedInside ==
    /\ op = "mu_law_encoding"
    /\ err = "none"
    /\ Len(args.x.data) = 2
    /\ args.x.data[1] < 0
    /\ args.x.data[2] > 0
    /\ 0 < ret.t.data[1]
    /\ ret.t.data[1] < ret.t.data[2]
    /\ ret.t.data[2] < args.qc - 1

(***************************************************************************)
(* The whole module: any one call, and a decode after an encode.           *)
(***************************************************************************)
Next ==
    \/ CallPadTrim
    \/ CallSpectrogram
    \/ CallSpectrogramToDB
    \/ CallCreateFbMatrix
    \/ CallCreateDct
    \/ CallMuLawEncoding
    \/ CallMuLawExpanding

Spec == Init /\ [][Next]_vars

====
